---- MODULE Spec2Model ----
(***************************************************************************)
(* fetchWithTokenRotation (src/unnamed/part_000): the token-rotating       *)
(* request helper, with the two browser stores it reads and writes, the    *)
(* audit log (addLogEntry) and the event bus (eventBus.dispatch).          *)
(*                                                                         *)
(* JavaScript runs the code between two awaits without interruption, so    *)
(* one action is one such stretch: Start (call to first await),            *)
(* RefreshDone (the await of getVeoAuthTokens completes) and AttemptDone   *)
(* (the await of fetch + response.json() completes).  Other code of the    *)
(* page may run while a call is suspended: SetCurrentUser.                 *)
(*                                                                         *)
(* Optional values (undefined / null / absent) are sequences of length 0   *)
(* or 1.  Loop index i is 0-based as in the source; tokensToTry[i] of the  *)
(* source is tokensToTry[i + 1] here.                                      *)
(***************************************************************************)
EXTENDS Integers, Sequences, FiniteSets, TLC

VARIABLES
    localStorage,    \* the item 'currentUser'
    sessionStorage,  \* the item 'veoAuthTokens'
    call,            \* per call: the locals of fetchWithTokenRotation
    io               \* per call: what the call did to its collaborators

vars == <<localStorage, sessionStorage, call, io>>

(***************************************************************************)
(* Bounds                                                                  *)
(***************************************************************************)
\* the shared pool holds MaxShared distinct tokens
MaxShared == 2

Calls == {"c1", "c2"}

Contexts == {"VEO T2V"}

(***************************************************************************)
(* Values                                                                  *)
(***************************************************************************)
None == <<>>
Some(v) == <<v>>

\* JavaScript truthiness of an optional string: undefined and '' are falsy
Truthy(opt) == opt # None /\ opt[1] # ""

\* a shared token carries its issue date in createdAt; "personal" (line 52)
\* and "N/A" (line 81) are the marks of the personal and the explicit token
SharedToken(k) == [token |-> "S" \o ToString(k), createdAt |-> "2024-0" \o ToString(k)]

SharedPool == {SharedToken(k) : k \in 1..MaxShared}

\* the lists of distinct shared tokens, every order
SharedLists ==
    {s \in UNION {[1..n -> SharedPool] : n \in 0..MaxShared} :
        \A a, b \in DOMAIN s : a # b => s[a] # s[b]}

\* what localStorage.getItem('currentUser') can hold
UserItems ==
    { [kind |-> "absent", personalAuthToken |-> None],
      [kind |-> "malformed", personalAuthToken |-> None],
      [kind |-> "user", personalAuthToken |-> Some("")],
      [kind |-> "user", personalAuthToken |-> Some("P1")] }

\* JSON.stringify of a token array, as sessionStorage holds it
JsonStringify(tokens) == [kind |-> "array", tokens |-> tokens]

\* what sessionStorage.getItem('veoAuthTokens') can hold
CacheItems ==
    { [kind |-> "absent", tokens |-> <<>>],
      [kind |-> "malformed", tokens |-> <<>>],
      [kind |-> "object", tokens |-> <<>>] }
    \cup {JsonStringify(s) : s \in SharedLists}

\* how the promise of getVeoAuthTokens() settles
RefreshResults ==
    { [kind |-> "throws", tokens |-> <<>>],
      [kind |-> "null", tokens |-> <<>>] }
    \cup {[kind |-> "array", tokens |-> s] : s \in SharedLists}

SpecificTokens == {None, Some(""), Some("X1")}

\* the body that is the JSON text null
NullBody == [json |-> TRUE, error |-> None, message |-> None, null |-> TRUE]

IsNull(body) == "null" \in DOMAIN body

\* response bodies: not JSON, the JSON null, or an object with optional
\* error.message / message, each possibly the empty string
Bodies ==
    { [json |-> FALSE, error |-> None, message |-> None], NullBody }
    \cup { [json |-> TRUE, error |-> e, message |-> m] :
             e \in {None, Some(""), Some("quota exceeded")},
             m \in {None, Some(""), Some("denied")} }

Statuses == {200, 201, 404, 500}

\* how the await of fetch and response.json() settles
Outcomes ==
    { [kind |-> "network", status |-> 0, body |-> [json |-> FALSE, error |-> None, message |-> None]] }
    \cup { [kind |-> "response", status |-> s, body |-> b] : s \in Statuses, b \in Bodies }

\* one outcome of each class of section 7 of the spec (network error, remote
\* rejection, malformed response) and one success
RotationOutcomes ==
    {out \in Outcomes :
        \/ out.kind = "network"
        \/ out.kind = "response" /\ out.status = 500
             /\ out.body = [json |-> TRUE, error |-> Some("quota exceeded"), message |-> None]
        \/ out.kind = "response" /\ out.status = 200
             /\ out.body \in {[json |-> FALSE, error |-> None, message |-> None],
                              [json |-> TRUE, error |-> None, message |-> None]}}

(***************************************************************************)
(* Pure functions                                                          *)
(***************************************************************************)
\* a bug: the cache is looked up under another key and never found
getSharedTokensWrongKey(item) == <<>>

\* lines 28-41
getSharedTokens(item) ==
    IF item.kind = "absent" THEN <<>>
    ELSE IF item.kind = "malformed" THEN <<>>
    ELSE IF item.kind = "array" /\ Len(item.tokens) > 0 THEN item.tokens
    ELSE <<>>

\* lines 46-59
getPersonalToken(item) ==
    IF item.kind = "absent" THEN None
    ELSE IF item.kind = "malformed" THEN None
    ELSE IF Truthy(item.personalAuthToken)
         THEN Some([token |-> item.personalAuthToken[1], createdAt |-> "personal"])
    ELSE None

\* a bug: the explicit token first, then the cached shared tokens as fallback
SpecificListThenShared(specificToken) ==
    <<[token |-> specificToken[1], createdAt |-> "N/A"]>> \o getSharedTokens(sessionStorage)

\* lines 79-81
SpecificList(specificToken) == <<[token |-> specificToken[1], createdAt |-> "N/A"]>>

\* a bug: the personal token after the shared ones
TokensToTrySharedFirst(personalToken, sharedTokens) ==
    sharedTokens \o (IF personalToken # None THEN <<personalToken[1]>> ELSE <<>>)

\* lines 102-105
TokensToTry(personalToken, sharedTokens) ==
    (IF personalToken # None THEN <<personalToken[1]>> ELSE <<>>) \o sharedTokens

\* a bug: the sentinel compared in the wrong case
IsPersonalWrongCase(currentToken) == currentToken.createdAt = "Personal"

\* a bug: every token that is not the explicit one counts as personal
IsPersonalUnlessExplicit(currentToken) == currentToken.createdAt # "N/A"

\* line 117
IsPersonal(currentToken) == currentToken.createdAt = "personal"

\* line 118
TokenIdentifier(i, currentToken, userItem) ==
    IF IsPersonal(currentToken)
    THEN [kind |-> "Personal Token", k |-> 0]
    ELSE [kind |-> "Shared Token #",
          k |-> i - (IF getPersonalToken(userItem) # None THEN 1 ELSE 0) + 1]

\* line 137
ErrorMessage(status, data) ==
    IF Truthy(data.error) THEN data.error[1]
    ELSE IF Truthy(data.message) THEN data.message[1]
    ELSE "API call failed (" \o ToString(status) \o ")"

ResponseOk(status) == status >= 200 /\ status <= 299

\* a bug: the status is tested before the body is parsed
AttemptStatusFirst(out) ==
    IF out.kind = "network"
    THEN [ok |-> FALSE, message |-> "Failed to fetch", data |-> None]
    ELSE IF ~ResponseOk(out.status)
    THEN [ok |-> FALSE,
          message |-> IF out.body.json /\ ~IsNull(out.body)
                      THEN ErrorMessage(out.status, out.body)
                      ELSE "API call failed (" \o ToString(out.status) \o ")",
          data |-> None]
    ELSE IF ~out.body.json
    THEN [ok |-> FALSE, message |-> "Unexpected token in JSON", data |-> None]
    ELSE [ok |-> TRUE, message |-> "", data |-> Some(out.body)]

\* lines 123-139: what one attempt comes to; fetch rejects (line 124),
\* response.json() rejects (line 133), data.error of null throws (line 137)
Attempt(out) ==
    IF out.kind = "network"
    THEN [ok |-> FALSE, message |-> "Failed to fetch", data |-> None]
    ELSE IF ~out.body.json
    THEN [ok |-> FALSE, message |-> "Unexpected token in JSON", data |-> None]
    ELSE IF ~ResponseOk(out.status)
    THEN [ok |-> FALSE,
          message |-> IF IsNull(out.body)
                      THEN "Cannot read properties of null (reading 'error')"
                      ELSE ErrorMessage(out.status, out.body),
          data |-> None]
    ELSE [ok |-> TRUE, message |-> "", data |-> Some(out.body)]

\* line 110
NoTokenError(logContext) ==
    [message |-> "Auth Token is required for " \o logContext \o ". Please set one in Settings.",
     attempt |-> -1]

\* an Error object: its message and the attempt that created it
Error(message, i) == [message |-> message, attempt |-> i]

\* line 121: `...${currentToken.token.slice(-6)}`; the tokens of the model have
\* at most 6 characters, so the slice keeps them whole
Redacted(token) == "..." \o token

(***************************************************************************)
(* State                                                                   *)
(***************************************************************************)
NewCall(logContext, specificToken) ==
    [pc |-> "running", logContext |-> logContext, specificToken |-> specificToken,
     personalToken |-> None, sharedTokens |-> <<>>, tokensToTry |-> <<>>,
     i |-> 0, isPersonal |-> FALSE, tokenIdentifier |-> [kind |-> "", k |-> 0],
     lastError |-> None, data |-> None, successfulToken |-> None,
     thrown |-> None]

IdleCall == [NewCall("", None) EXCEPT !.pc = "idle"]

\* what a call has done so far: the requests it issued (their bearer token)
\* and how each settled, its addLogEntry calls and its eventBus.dispatch calls
\* (each with the iteration that made it, -1 outside the loop), its uses of
\* the stores and of getVeoAuthTokens, and what these gave it
NewIo(userItem, cacheItem) ==
    [fetches |-> <<>>, responses |-> <<>>, log |-> <<>>, events |-> <<>>,
     personalLookups |-> 0, labelLookups |-> 0, cacheReads |-> 0,
     cacheWrites |-> 0, refreshes |-> 0,
     user0 |-> userItem, cache0 |-> cacheItem, refreshed |-> None]

IdleIo == NewIo([kind |-> "absent", personalAuthToken |-> None],
                [kind |-> "absent", tokens |-> <<>>])

Init ==
    /\ localStorage \in UserItems
    /\ sessionStorage \in CacheItems
    /\ call = [p \in Calls |-> IdleCall]
    /\ io = [p \in Calls |-> IdleIo]

(***************************************************************************)
(* fetchWithTokenRotation, stretch by stretch.  Each operator maps the     *)
(* call's locals c and its record o to the pair after the stretch.         *)
(***************************************************************************)
\* lines 115-131: iteration i up to the await of fetch
BeginAttempt(c, o, i, userItem) ==
    LET currentToken == c.tokensToTry[i + 1]
        tokenIdentifier == TokenIdentifier(i, currentToken, userItem)
        entry == [at |-> i, prompt |-> "Attempt with", id |-> tokenIdentifier,
                  output |-> Redacted(currentToken.token),
                  status |-> "Success", error |-> None]
    IN  [call |-> [c EXCEPT !.pc = "fetching", !.i = i,
                            !.isPersonal = IsPersonal(currentToken),
                            !.tokenIdentifier = tokenIdentifier],
         io |-> [o EXCEPT !.log = Append(@, entry),
                          !.fetches = Append(@, currentToken.token),
                          !.labelLookups = IF IsPersonal(currentToken) THEN @ ELSE @ + 1]]

\* a bug: no guard; the empty loop falls through to line 161, where reading
\* lastError.message of null throws a TypeError
FromGuardMissing(c, o, userItem) ==
    IF Len(c.tokensToTry) = 0
    THEN [call |-> [c EXCEPT !.pc = "rejected",
                             !.thrown = Some([message |-> "Cannot read properties of null",
                                              attempt |-> -1])],
          io |-> o]
    ELSE BeginAttempt(c, o, 0, userItem)

\* lines 108-115: the guard on the candidate list, then the first iteration
FromGuard(c, o, userItem) ==
    IF Len(c.tokensToTry) = 0
    THEN [call |-> [c EXCEPT !.pc = "rejected",
                             !.thrown = Some(NoTokenError(c.logContext))],
          io |-> o]
    ELSE BeginAttempt(c, o, 0, userItem)

\* a bug: the loop ran out and the last error is thrown without a log entry
ExhaustedUnlogged(c, o) ==
    [call |-> [c EXCEPT !.pc = "rejected", !.thrown = c.lastError], io |-> o]

\* lines 160-162: the loop ran out
Exhausted(c, o) ==
    LET entry == [at |-> -1, prompt |-> "All available auth tokens failed.",
                  id |-> [kind |-> "", k |-> 0],
                  output |-> "Final error: " \o c.lastError[1].message,
                  status |-> "Error", error |-> Some(c.lastError[1].message)]
    IN  [call |-> [c EXCEPT !.pc = "rejected", !.thrown = c.lastError],
         io |-> [o EXCEPT !.log = Append(@, entry)]]

\* a bug: the first error is kept
LastErrorKeepsFirst(previous, error) == IF previous = None THEN Some(error) ELSE previous

\* line 145
LastError(previous, error) == Some(error)

\* a bug: no return on success, the loop goes on while candidates remain
OnSuccessGoesOn(c, o, data, userItem) ==
    LET done == [c EXCEPT !.pc = "resolved", !.data = data,
                          !.successfulToken = Some(c.tokensToTry[c.i + 1].token)]
    IN  IF c.i + 1 < Len(c.tokensToTry)
        THEN BeginAttempt(c, o, c.i + 1, userItem)
        ELSE [call |-> done, io |-> o]

\* a bug: a further log entry on success
OnSuccessLogged(c, o, data, userItem) ==
    LET entry == [at |-> c.i, prompt |-> "succeeded", id |-> c.tokenIdentifier,
                  output |-> "", status |-> "Success", error |-> None]
    IN  [call |-> [c EXCEPT !.pc = "resolved", !.data = data,
                            !.successfulToken = Some(c.tokensToTry[c.i + 1].token)],
         io |-> [o EXCEPT !.log = Append(@, entry)]]

\* lines 141-142
OnSuccess(c, o, data, userItem) ==
    [call |-> [c EXCEPT !.pc = "resolved", !.data = data,
                        !.successfulToken = Some(c.tokensToTry[c.i + 1].token)],
     io |-> o]

\* a bug: the next request is issued before the failure is logged and published
OnFailureReportsLate(c, o, errorMessage, userItem) ==
    LET entry == [at |-> c.i, prompt |-> "failed", id |-> c.tokenIdentifier,
                  output |-> errorMessage,
                  status |-> "Error", error |-> Some(errorMessage)]
        c1 == [c EXCEPT !.lastError = LastError(@, Error(errorMessage, c.i))]
        report(o0) == [o0 EXCEPT !.log = Append(@, entry),
                                 !.events = IF c.isPersonal
                                            THEN Append(@, [at |-> c.i, name |-> "personalTokenFailed"])
                                            ELSE @]
    IN  IF c.i + 1 < Len(c.tokensToTry)
        THEN LET b == BeginAttempt(c1, o, c.i + 1, userItem)
             IN  [call |-> b.call, io |-> report(b.io)]
        ELSE Exhausted(c1, report(o))

\* a bug: a candidate that failed is requested a second time before the
\* loop moves on
OnFailureRetries(c, o, errorMessage, userItem) ==
    LET entry == [at |-> c.i, prompt |-> "failed", id |-> c.tokenIdentifier,
                  output |-> errorMessage,
                  status |-> "Error", error |-> Some(errorMessage)]
        c1 == [c EXCEPT !.lastError = LastError(@, Error(errorMessage, c.i))]
        o1 == [o EXCEPT !.log = Append(@, entry),
                        !.events = IF c.isPersonal
                                   THEN Append(@, [at |-> c.i, name |-> "personalTokenFailed"])
                                   ELSE @]
        failedBefore == \E k \in 1..Len(o.log) :
                            o.log[k].at = c.i /\ o.log[k].prompt = "failed"
    IN  IF ~failedBefore
        THEN BeginAttempt(c1, o1, c.i, userItem)
        ELSE IF c.i + 1 < Len(c.tokensToTry)
        THEN BeginAttempt(c1, o1, c.i + 1, userItem)
        ELSE Exhausted(c1, o1)

\* lines 144-158, then the next iteration or the end of the loop
OnFailure(c, o, errorMessage, userItem) ==
    LET entry == [at |-> c.i, prompt |-> "failed", id |-> c.tokenIdentifier,
                  output |-> errorMessage,
                  status |-> "Error", error |-> Some(errorMessage)]
        c1 == [c EXCEPT !.lastError = LastError(@, Error(errorMessage, c.i))]
        o1 == [o EXCEPT !.log = Append(@, entry),
                        !.events = IF c.isPersonal
                                   THEN Append(@, [at |-> c.i, name |-> "personalTokenFailed"])
                                   ELSE @]
    IN  IF c.i + 1 < Len(c.tokensToTry)
        THEN BeginAttempt(c1, o1, c.i + 1, userItem)
        ELSE Exhausted(c1, o1)

\* a bug: the length of the new list is not tested
StoredEvenIfEmpty(r) == r.kind = "array"

\* line 92: newTokens && newTokens.length > 0
Stored(r) == r.kind = "array" /\ Len(r.tokens) > 0

\* a bug: after the write the list is read back from the cache as it was
\* when the await ended, another call's list if one was written meanwhile
RefreshedTokensFromCache(sharedTokens, newTokens) ==
    IF getSharedTokens(sessionStorage) # <<>> THEN getSharedTokens(sessionStorage)
    ELSE newTokens

\* a bug: the new tokens are stored but not used by this call
RefreshedTokensUnused(sharedTokens, newTokens) == sharedTokens

\* line 94
RefreshedTokens(sharedTokens, newTokens) == newTokens

\* a bug: no try/catch around the refresh, its rejection rejects the call
AfterRefreshUncaught(c, o, r, userItem) ==
    IF r.kind = "throws"
    THEN [call |-> [c EXCEPT !.pc = "rejected",
                             !.thrown = Some([message |-> "getVeoAuthTokens failed",
                                              attempt |-> -1])],
          io |-> o]
    ELSE LET stored == Stored(r)
             sharedTokens == IF stored THEN r.tokens ELSE c.sharedTokens
         IN  FromGuard([c EXCEPT !.sharedTokens = sharedTokens,
                                 !.tokensToTry = TokensToTry(c.personalToken, sharedTokens)],
                       [o EXCEPT !.cacheWrites = IF stored THEN @ + 1 ELSE @],
                       userItem)

\* lines 92-115: the refresh settled with r; a rejection is caught (line 97)
AfterRefresh(c, o, r, userItem) ==
    LET stored == r.kind # "throws" /\ Stored(r)
        sharedTokens == IF stored THEN RefreshedTokens(c.sharedTokens, r.tokens)
                        ELSE c.sharedTokens
    IN  FromGuard([c EXCEPT !.sharedTokens = sharedTokens,
                            !.tokensToTry = TokensToTry(c.personalToken, sharedTokens)],
                  [o EXCEPT !.cacheWrites = IF stored THEN @ + 1 ELSE @],
                  userItem)

(***************************************************************************)
(* Actions                                                                 *)
(***************************************************************************)
\* lines 75-91 when the cache is empty, else lines 75-124
Start(p, logContext, specificToken) ==
    /\ call[p].pc \in {"idle", "resolved", "rejected"}
    /\ LET c == NewCall(logContext, specificToken)
           o == NewIo(localStorage, sessionStorage)
           personalToken == getPersonalToken(localStorage)
           sharedTokens == getSharedTokens(sessionStorage)
           o1 == [o EXCEPT !.personalLookups = 1, !.cacheReads = 1]
           next ==
             IF Truthy(specificToken)
             THEN FromGuard([c EXCEPT !.tokensToTry = SpecificList(specificToken)],
                            o, localStorage)
             ELSE IF Len(sharedTokens) = 0
             THEN [call |-> [c EXCEPT !.pc = "refreshing",
                                      !.personalToken = personalToken],
                   io |-> [o1 EXCEPT !.refreshes = @ + 1]]
             ELSE FromGuard([c EXCEPT !.personalToken = personalToken,
                                      !.sharedTokens = sharedTokens,
                                      !.tokensToTry = TokensToTry(personalToken, sharedTokens)],
                            o1, localStorage)
       IN  /\ call' = [call EXCEPT ![p] = next.call]
           /\ io' = [io EXCEPT ![p] = next.io]
    /\ UNCHANGED <<localStorage, sessionStorage>>

\* lines 92-124: the await of getVeoAuthTokens() settles with r
RefreshDone(p, r) ==
    /\ call[p].pc = "refreshing"
    /\ LET next == AfterRefresh(call[p], [io[p] EXCEPT !.refreshed = Some(r)],
                                r, localStorage)
       IN  /\ sessionStorage' = IF r.kind # "throws" /\ Stored(r)
                                THEN JsonStringify(r.tokens) ELSE sessionStorage
           /\ call' = [call EXCEPT ![p] = next.call]
           /\ io' = [io EXCEPT ![p] = next.io]
    /\ UNCHANGED localStorage

\* lines 133-162: the await of fetch and response.json() settles with out
AttemptDone(p, out) ==
    /\ call[p].pc = "fetching"
    /\ LET a == Attempt(out)
           o == [io[p] EXCEPT !.responses = Append(@, out)]
           next == IF a.ok
                   THEN OnSuccess(call[p], o, a.data, localStorage)
                   ELSE OnFailure(call[p], o, a.message, localStorage)
       IN  /\ call' = [call EXCEPT ![p] = next.call]
           /\ io' = [io EXCEPT ![p] = next.io]
    /\ UNCHANGED <<localStorage, sessionStorage>>

\* the rest of the page saves the current user (setItem of a stringified
\* user) or removes it while a call is suspended; between calls, Init already
\* gives every store content
SetCurrentUser(item) ==
    /\ \E p \in Calls : call[p].pc \in {"refreshing", "fetching"}
    /\ item.kind # "malformed"
    /\ item # localStorage
    /\ localStorage' = item
    /\ UNCHANGED <<sessionStorage, call, io>>

\* one call at a time
Next ==
    \/ \E logContext \in Contexts, specificToken \in SpecificTokens :
           Start("c1", logContext, specificToken)
    \/ \E r \in RefreshResults : RefreshDone("c1", r)
    \/ \E out \in RotationOutcomes : AttemptDone("c1", out)
    \/ \E item \in UserItems : SetCurrentUser(item)

Spec == Init /\ [][Next]_vars

(***************************************************************************)
(* One call after another with the page's stores left alone, under the     *)
(* assumption that every await settles: the refresh (line 92) and the      *)
(* request with its body (lines 124-133) are promises that complete, with  *)
(* a value or an error.                                                    *)
(***************************************************************************)
NextFair ==
    \/ \E logContext \in Contexts, specificToken \in SpecificTokens :
           Start("c1", logContext, specificToken)
    \/ \E r \in RefreshResults : RefreshDone("c1", r)
    \/ \E out \in RotationOutcomes : AttemptDone("c1", out)

SpecFair ==
    /\ Init
    /\ [][NextFair]_vars
    /\ WF_vars(\E r \in RefreshResults : RefreshDone("c1", r))
    /\ WF_vars(\E out \in RotationOutcomes : AttemptDone("c1", out))

(***************************************************************************)
(* Two calls, each made once, interleaved at their awaits in every order   *)
(* (one after the other included); the cache starts empty in one of the    *)
(* ways getSharedTokens takes for empty.                                   *)
(***************************************************************************)
RaceOutcomes ==
    {out \in Outcomes :
        \/ out.kind = "network"
        \/ out.kind = "response" /\ out.status = 200
             /\ out.body = [json |-> TRUE, error |-> None, message |-> None]}

InitRace ==
    /\ localStorage \in {u \in UserItems : u.kind # "malformed"}
    /\ sessionStorage \in {item \in CacheItems : getSharedTokens(item) = <<>>}
    /\ call = [p \in Calls |-> IdleCall]
    /\ io = [p \in Calls |-> IdleIo]

NextRace ==
    \/ \E p \in Calls, logContext \in Contexts :
           call[p].pc = "idle" /\ Start(p, logContext, None)
    \/ \E p \in Calls, r \in RefreshResults : RefreshDone(p, r)
    \/ \E p \in Calls, out \in RaceOutcomes : AttemptDone(p, out)

SpecRace == InitRace /\ [][NextRace]_vars

(***************************************************************************)
(* One call at a time over the personal token (if stored) and one cached   *)
(* shared token, with every response of Outcomes.                          *)
(***************************************************************************)
InitHttp ==
    /\ localStorage \in {u \in UserItems : u.kind # "malformed"}
    /\ sessionStorage = JsonStringify(<<SharedToken(1)>>)
    /\ call = [p \in Calls |-> IdleCall]
    /\ io = [p \in Calls |-> IdleIo]

NextHttp ==
    \/ \E logContext \in Contexts : Start("c1", logContext, None)
    \/ \E out \in Outcomes : AttemptDone("c1", out)

SpecHttp == InitHttp /\ [][NextHttp]_vars

(***************************************************************************)
(* Vocabulary of the claims                                                *)
(***************************************************************************)
Begun(p) == call[p].pc # "idle"

\* an explicit credential was supplied (a non-empty string: line 79 tests
\* specificToken for truthiness)
Explicit(p) == call[p].specificToken # None /\ call[p].specificToken[1] # ""

\* the stored user held a personal token when the call read the store
StoredPersonal(item) ==
    item.kind = "user" /\ item.personalAuthToken # None /\ item.personalAuthToken[1] # ""

PersonalConfigured(p) == ~Explicit(p) /\ StoredPersonal(io[p].user0)

\* the request succeeded: a 2xx response whose body is JSON
Succeeded(out) ==
    out.kind = "response" /\ out.status \in 200..299 /\ out.body.json

\* the bearer tokens of the first n candidates
Bearers(tokens, n) == [k \in 1..n |-> tokens[k].token]

(***************************************************************************)
(* C1: a call resolves with the body and the token of the first candidate, *)
(* in the order of the candidate list, whose request succeeds: each        *)
(* earlier candidate was requested once and failed, no later candidate is  *)
(* requested, and a successful request always ends the call.               *)
(***************************************************************************)
C1_FirstSuccessWins ==
    \A p \in Calls :
        LET c == call[p]
            o == io[p]
            n == Len(o.responses)
        IN  /\ \A j \in 1..n :
                 Succeeded(o.responses[j]) =>
                     /\ j = n
                     /\ c.pc = "resolved"
            /\ c.pc = "resolved" =>
                 /\ n >= 1
                 /\ n <= Len(c.tokensToTry)
                 /\ Succeeded(o.responses[n])
                 /\ \A j \in 1..(n - 1) : ~Succeeded(o.responses[j])
                 /\ o.fetches = Bearers(c.tokensToTry, n)
                 /\ c.data = Some(o.responses[n].body)
                 /\ c.successfulToken = Some(c.tokensToTry[n].token)

\* a call resolved by its second candidate, a third one left untried
C1_Witness ==
    \E p \in Calls :
        /\ call[p].pc = "resolved"
        /\ Len(io[p].fetches) = 2
        /\ Len(call[p].tokensToTry) = 3

(***************************************************************************)
(* C2: when every candidate fails, the call rejects with the error of the  *)
(* last candidate attempted, never with the error of an earlier one.       *)
(***************************************************************************)
C2_RejectsWithLastError ==
    \A p \in Calls :
        LET c == call[p]
            o == io[p]
            n == Len(c.tokensToTry)
        IN  (c.pc = "rejected" /\ n >= 1) =>
                /\ Len(o.responses) = n
                /\ \A j \in 1..n : ~Succeeded(o.responses[j])
                /\ c.thrown = Some(Error(Attempt(o.responses[n]).message, n - 1))
                /\ \A j \in 1..(n - 1) :
                       c.thrown # Some(Error(Attempt(o.responses[j]).message, j - 1))

\* three candidates failed, the first and the last with different messages
C2_Witness ==
    \E p \in Calls :
        /\ call[p].pc = "rejected"
        /\ Len(io[p].responses) = 3
        /\ Attempt(io[p].responses[1]).message # Attempt(io[p].responses[3]).message

(***************************************************************************)
(* C3: with an empty candidate list (no explicit credential, no personal   *)
(* token, an empty cache and a refresh that fails or gives nothing) the    *)
(* call rejects with the "Auth Token is required for <context>" error and  *)
(* has issued no request, recorded no log entry and dispatched no event;   *)
(* while an attempt is in progress the candidate list is not empty.        *)
(***************************************************************************)
C3_EmptySetRejectsBeforeAnyEffect ==
    \A p \in Calls :
        LET c == call[p]
            o == io[p]
            nothingUsable ==
                /\ ~Explicit(p)
                /\ ~StoredPersonal(o.user0)
                /\ ~(o.cache0.kind = "array" /\ o.cache0.tokens # <<>>)
                /\ o.refreshed # None
                /\ ~(o.refreshed[1].kind = "array" /\ o.refreshed[1].tokens # <<>>)
        IN  /\ nothingUsable => c.tokensToTry = <<>>
            /\ (c.pc \notin {"idle", "refreshing"} /\ c.tokensToTry = <<>>) =>
                 /\ c.pc = "rejected"
                 /\ c.thrown = Some([message |-> "Auth Token is required for "
                                                   \o c.logContext
                                                   \o ". Please set one in Settings.",
                                     attempt |-> -1])
                 /\ o.fetches = <<>>
                 /\ o.log = <<>>
                 /\ o.events = <<>>
            /\ c.pc = "fetching" => c.tokensToTry # <<>>

\* the refresh threw, nothing else was available, the call is rejected
C3_Witness ==
    \E p \in Calls :
        /\ call[p].pc = "rejected"
        /\ call[p].tokensToTry = <<>>
        /\ io[p].refreshed # None
        /\ io[p].refreshed[1].kind = "throws"

(***************************************************************************)
(* C4: if the personal token is a candidate and its attempt fails, the     *)
(* call dispatches exactly one personalTokenFailed event, whatever the     *)
(* later candidates do.                                                    *)
(***************************************************************************)
C4_OneEventPerPersonalFailure ==
    \A p \in Calls :
        LET o == io[p]
        IN  (PersonalConfigured(p) /\ Len(o.responses) >= 1 /\ ~Succeeded(o.responses[1])) =>
                /\ Len(o.events) = 1
                /\ o.events[1].name = "personalTokenFailed"

\* the personal token failed and a shared token then succeeded
C4_Witness ==
    \E p \in Calls :
        /\ PersonalConfigured(p)
        /\ call[p].pc = "resolved"
        /\ Len(io[p].fetches) >= 2
        /\ Len(io[p].events) = 1

(***************************************************************************)
(* C5: an event is dispatched only by the failed attempt of the personal   *)
(* token: never by a shared or explicit candidate, never by a success.     *)
(***************************************************************************)
C5_OnlyPersonalFailurePublishes ==
    \A p \in Calls :
        LET c == call[p]
            o == io[p]
        IN  /\ \A e \in 1..Len(o.events) :
                 LET j == o.events[e].at + 1
                 IN  /\ PersonalConfigured(p)
                     /\ j = 1
                     /\ c.tokensToTry[j].token = o.user0.personalAuthToken[1]
                     /\ j <= Len(o.responses)
                     /\ ~Succeeded(o.responses[j])
            /\ Explicit(p) => o.events = <<>>
            /\ ~PersonalConfigured(p) => o.events = <<>>

\* two shared candidates have failed without an event
C5_Witness ==
    \E p \in Calls :
        /\ call[p].pc = "rejected"
        /\ ~Explicit(p)
        /\ ~PersonalConfigured(p)
        /\ Len(io[p].responses) = 2
        /\ io[p].events = <<>>

(***************************************************************************)
(* C6: with an explicit credential the candidate list is that credential   *)
(* alone, even when a personal token is stored and shared tokens are       *)
(* cached: neither store is read to build the list, no refresh is started, *)
(* the cache is not written, and at most one request is issued, bearing    *)
(* the explicit credential.                                                *)
(***************************************************************************)
C6_ExplicitBypassesRotation ==
    \A p \in Calls :
        LET c == call[p]
            o == io[p]
        IN  (Begun(p) /\ Explicit(p)) =>
                /\ Len(c.tokensToTry) = 1
                /\ c.tokensToTry[1].token = c.specificToken[1]
                /\ c.tokensToTry[1].createdAt # "personal"
                /\ o.personalLookups = 0
                /\ o.cacheReads = 0
                /\ o.refreshes = 0
                /\ o.refreshed = None
                /\ o.cacheWrites = 0
                /\ sessionStorage = o.cache0
                /\ Len(o.fetches) <= 1
                /\ \A j \in 1..Len(o.fetches) : o.fetches[j] = c.specificToken[1]

\* an explicit credential failed while a personal token was stored and two
\* shared tokens were cached
C6_Witness ==
    \E p \in Calls :
        /\ Explicit(p)
        /\ call[p].pc = "rejected"
        /\ StoredPersonal(io[p].user0)
        /\ io[p].cache0.kind = "array"
        /\ Len(io[p].cache0.tokens) = 2
        /\ Len(io[p].fetches) = 1

(***************************************************************************)
(* C7: without an explicit credential, the bearer tokens of the requests   *)
(* of one call are, in order, a prefix of: the personal token the store    *)
(* held (if any), then the shared tokens in the order the cache or the     *)
(* refresh gave them; no candidate is requested twice.                     *)
(***************************************************************************)
SourceOrder(p) ==
    LET o == io[p]
        personal == IF StoredPersonal(o.user0)
                    THEN <<o.user0.personalAuthToken[1]>> ELSE <<>>
        given == IF o.cache0.kind = "array" /\ o.cache0.tokens # <<>>
                 THEN o.cache0.tokens
                 ELSE IF o.refreshed # None /\ o.refreshed[1].kind = "array"
                 THEN o.refreshed[1].tokens
                 ELSE <<>>
    IN  personal \o [k \in 1..Len(given) |-> given[k].token]

C7_RequestsFollowSourceOrder ==
    \A p \in Calls :
        LET o == io[p]
            n == Len(o.fetches)
        IN  (Begun(p) /\ ~Explicit(p)) =>
                /\ n <= Len(SourceOrder(p))
                /\ o.fetches = SubSeq(SourceOrder(p), 1, n)
                /\ \A a, b \in 1..n : a # b => o.fetches[a] # o.fetches[b]

\* the personal token, then two refreshed shared tokens, were all requested
C7_Witness ==
    \E p \in Calls :
        /\ ~Explicit(p)
        /\ Len(io[p].fetches) = 3
        /\ io[p].refreshed # None
        /\ io[p].fetches[1] = "P1"
        /\ io[p].fetches[2] = "S2"

(***************************************************************************)
(* C8: without an explicit credential and with an empty cache, the call    *)
(* starts the refresh exactly once; a non-empty result is written to the   *)
(* cache and becomes the shared candidates; after a refresh that failed or *)
(* gave nothing, and without a personal token, the call rejects with the   *)
(* "Auth Token is required" error and no request.                          *)
(***************************************************************************)
C8_RefreshOnceOnEmptyCache ==
    \A p \in Calls :
        LET c == call[p]
            o == io[p]
            r == o.refreshed[1]
            personal == IF StoredPersonal(o.user0)
                        THEN <<[token |-> o.user0.personalAuthToken[1],
                                createdAt |-> "personal"]>>
                        ELSE <<>>
        IN  (Begun(p) /\ ~Explicit(p)
                /\ ~(o.cache0.kind = "array" /\ o.cache0.tokens # <<>>)) =>
                /\ o.refreshes = 1
                /\ (c.pc = "refreshing") = (o.refreshed = None)
                /\ o.refreshed # None =>
                     IF r.kind = "array" /\ r.tokens # <<>>
                     THEN /\ o.cacheWrites = 1
                          /\ sessionStorage = [kind |-> "array", tokens |-> r.tokens]
                          /\ c.sharedTokens = r.tokens
                          /\ c.tokensToTry = personal \o r.tokens
                     ELSE /\ o.cacheWrites = 0
                          /\ sessionStorage = o.cache0
                          /\ ~StoredPersonal(o.user0) =>
                               /\ c.pc = "rejected"
                               /\ c.thrown = Some(NoTokenError(c.logContext))
                               /\ o.fetches = <<>>

\* the refresh gave two tokens, now cached and being tried
C8_Witness ==
    \E p \in Calls :
        /\ ~Explicit(p)
        /\ io[p].refreshes = 1
        /\ io[p].refreshed # None
        /\ Len(io[p].refreshed[1].tokens) = 2
        /\ io[p].cache0.kind = "malformed"
        /\ sessionStorage.kind = "array"
        /\ Len(io[p].fetches) >= 1

(***************************************************************************)
(* C9: a refresh that throws never reaches the caller: with a personal     *)
(* token stored, the call goes on with that token as its only candidate    *)
(* and resolves or rejects by that attempt alone; the cache is unchanged.  *)
(***************************************************************************)
C9_RefreshFailureIsSwallowed ==
    \A p \in Calls :
        LET c == call[p]
            o == io[p]
        IN  (o.refreshed # None /\ o.refreshed[1].kind = "throws") =>
                /\ sessionStorage = o.cache0
                /\ o.cacheWrites = 0
                /\ ~PersonalConfigured(p) =>
                     /\ c.pc = "rejected"
                     /\ c.thrown = Some(NoTokenError(c.logContext))
                /\ PersonalConfigured(p) =>
                     /\ c.tokensToTry = <<[token |-> o.user0.personalAuthToken[1],
                                           createdAt |-> "personal"]>>
                     /\ o.fetches = <<o.user0.personalAuthToken[1]>>
                     /\ c.pc \in {"fetching", "resolved", "rejected"}
                     /\ (c.pc = "fetching") = (o.responses = <<>>)
                     /\ c.pc = "resolved" => Succeeded(o.responses[1])
                     /\ c.pc = "rejected" =>
                          /\ ~Succeeded(o.responses[1])
                          /\ c.thrown = Some(Error(Attempt(o.responses[1]).message, 0))

\* the refresh threw and the personal token then succeeded
C9_Witness ==
    \E p \in Calls :
        /\ io[p].refreshed # None
        /\ io[p].refreshed[1].kind = "throws"
        /\ PersonalConfigured(p)
        /\ call[p].pc = "resolved"

(***************************************************************************)
(* C10 as claimed: every attempt, successful or failed, causes exactly one *)
(* log entry.  Refuted: a failed attempt causes two (lines 121 and 148).   *)
(***************************************************************************)
EntriesOf(p, i) == {k \in 1..Len(io[p].log) : io[p].log[k].at = i}

C10_OneEntryPerAttempt ==
    \A p \in Calls :
        \A j \in 1..Len(io[p].responses) : Cardinality(EntriesOf(p, j - 1)) = 1

(***************************************************************************)
(* C10 as amended: every attempt causes exactly one log entry when it      *)
(* starts (status "Success", recorded before its request); an attempt that *)
(* fails causes exactly one further entry, of status "Error"; an attempt   *)
(* that succeeds causes no further entry.                                  *)
(***************************************************************************)
C10_EntriesPerAttempt ==
    \A p \in Calls :
        LET o == io[p]
        IN  \A j \in 1..Len(o.fetches) :
                LET mine == EntriesOf(p, j - 1)
                    starts == {k \in mine : o.log[k].prompt = "Attempt with"}
                    errors == {k \in mine : o.log[k].status = "Error"}
                    failed == j <= Len(o.responses) /\ ~Succeeded(o.responses[j])
                IN  /\ Cardinality(starts) = 1
                    /\ \A k \in starts : o.log[k].status = "Success"
                    /\ Cardinality(errors) = IF failed THEN 1 ELSE 0
                    /\ mine = starts \cup errors
                    /\ starts \cap errors = {}

\* one attempt failed and the next succeeded
C10_Witness ==
    \E p \in Calls :
        /\ call[p].pc = "resolved"
        /\ Len(io[p].responses) = 2
        /\ Len(io[p].log) = 3

(***************************************************************************)
(* C11: when all n candidates fail, the log holds one entry of status      *)
(* "Error" per candidate and one exhaustion entry, n + 1 in all; the       *)
(* exhaustion entry is the last entry of the log and is there when the     *)
(* call rejects, never before.                                             *)
(***************************************************************************)
ErrorEntries(p) == {k \in 1..Len(io[p].log) : io[p].log[k].status = "Error"}

ExhaustionEntries(p) ==
    {k \in 1..Len(io[p].log) : io[p].log[k].prompt = "All available auth tokens failed."}

C11_ErrorEntriesOnExhaustion ==
    \A p \in Calls :
        LET c == call[p]
            o == io[p]
            n == Len(c.tokensToTry)
        IN  /\ (c.pc = "rejected" /\ n >= 1) =>
                 /\ Cardinality(ErrorEntries(p)) = n + 1
                 /\ \A j \in 1..n :
                        Cardinality({k \in ErrorEntries(p) : o.log[k].at = j - 1}) = 1
                 /\ ExhaustionEntries(p) = {Len(o.log)}
                 /\ o.log[Len(o.log)].status = "Error"
                 /\ o.log[Len(o.log)].at = -1
            /\ c.pc # "rejected" => ExhaustionEntries(p) = {}

\* three candidates failed
C11_Witness ==
    \E p \in Calls :
        /\ call[p].pc = "rejected"
        /\ Len(call[p].tokensToTry) = 3
        /\ Cardinality(ErrorEntries(p)) = 4

(***************************************************************************)
(* C12: no personal token, cache = [S1, S2], S1 answers 500 with           *)
(* error.message "quota exceeded", S2 answers 200.                         *)
(***************************************************************************)
QuotaThenOk(p) ==
    /\ ~Explicit(p)
    /\ ~StoredPersonal(io[p].user0)
    /\ io[p].cache0 = [kind |-> "array", tokens |-> <<SharedToken(1), SharedToken(2)>>]
    /\ Len(io[p].responses) = 2
    /\ io[p].responses[1] =
         [kind |-> "response", status |-> 500,
          body |-> [json |-> TRUE, error |-> Some("quota exceeded"), message |-> None]]
    /\ io[p].responses[2] =
         [kind |-> "response", status |-> 200,
          body |-> [json |-> TRUE, error |-> None, message |-> None]]

SuccessEntries(p) == {k \in 1..Len(io[p].log) : io[p].log[k].status = "Success"}

QuotaThenOkResult(p) ==
    /\ call[p].pc = "resolved"
    /\ call[p].data = Some(io[p].responses[2].body)
    /\ call[p].successfulToken = Some("S2")
    /\ Cardinality(ErrorEntries(p)) = 1
    /\ \A k \in ErrorEntries(p) : io[p].log[k].error = Some("quota exceeded")
    /\ io[p].events = <<>>

\* C12 as claimed: the call resolves with S2's body and token, the log holds
\* exactly one entry of status "Error" (with "quota exceeded") and exactly
\* one of status "Success", and no event is dispatched.  Refuted: the log
\* holds two entries of status "Success".
C12_OneErrorOneSuccessEntry ==
    \A p \in Calls :
        QuotaThenOk(p) => (QuotaThenOkResult(p) /\ Cardinality(SuccessEntries(p)) = 1)

\* C12 as amended: the call resolves with S2's body and token, the log holds
\* exactly one entry of status "Error" (with "quota exceeded") and exactly
\* two of status "Success", the attempt entries of S1 and S2, and no event
\* is dispatched.
C12_OneErrorTwoAttemptEntries ==
    \A p \in Calls :
        QuotaThenOk(p) =>
            /\ QuotaThenOkResult(p)
            /\ Cardinality(SuccessEntries(p)) = 2
            /\ \A k \in SuccessEntries(p) : io[p].log[k].prompt = "Attempt with"
            /\ {io[p].log[k].output : k \in SuccessEntries(p)} = {"...S1", "...S2"}

\* the scenario has run to its end
C12_Witness == \E p \in Calls : QuotaThenOk(p) /\ call[p].pc = "resolved"

(***************************************************************************)
(* C13: a call has at most one request in flight; the request of           *)
(* candidate i+1 is issued only after the request of candidate i has       *)
(* failed and its error entry (and event, for the personal token) is out.  *)
(***************************************************************************)
\* the position in the log of the entry of iteration i with the given prompt
EntryAt(p, i, prompt) ==
    {k \in 1..Len(io[p].log) : io[p].log[k].at = i /\ io[p].log[k].prompt = prompt}

C13_OneRequestInFlight ==
    \A p \in Calls :
        LET c == call[p]
            o == io[p]
            inFlight == Len(o.fetches) - Len(o.responses)
        IN  /\ inFlight \in {0, 1}
            /\ (inFlight = 1) = (c.pc = "fetching")
            /\ \A j \in 2..Len(o.fetches) :
                 /\ ~Succeeded(o.responses[j - 1])
                 /\ \E e \in EntryAt(p, j - 2, "failed") :
                        \A a \in EntryAt(p, j - 1, "Attempt with") : e < a
                 /\ c.tokensToTry[j - 1].createdAt = "personal" =>
                        \E e \in 1..Len(o.events) : o.events[e].at = j - 2

\* the third request is in flight after two failures, the first the personal
\* token's
C13_Witness ==
    \E p \in Calls :
        /\ call[p].pc = "fetching"
        /\ Len(io[p].fetches) = 3
        /\ Len(io[p].events) = 1

(***************************************************************************)
(* C15: in every attempt entry the personal token is labelled "Personal    *)
(* Token" and every other candidate "Shared Token #k", k >= 1 its 1-based  *)
(* position among the candidates that are not the personal token, for      *)
(* every candidate list and whatever happens to the stored user while the  *)
(* call is suspended.  Refuted: line 118 reads the store again, so an      *)
(* explicit token is "#0" when a personal token is stored, and a shared    *)
(* token's number shifts when the stored token is set or removed.          *)
(***************************************************************************)
PersonalAhead(p) ==
    IF call[p].tokensToTry # <<>> /\ call[p].tokensToTry[1].createdAt = "personal"
    THEN 1 ELSE 0

C15_LabelsCountSharedOnly ==
    \A p \in Calls :
        \A k \in 1..Len(io[p].log) :
            LET entry == io[p].log[k]
                candidate == call[p].tokensToTry[entry.at + 1]
            IN  entry.prompt = "Attempt with" =>
                    IF candidate.createdAt = "personal"
                    THEN entry.id.kind = "Personal Token"
                    ELSE /\ entry.id.kind = "Shared Token #"
                         /\ entry.id.k >= 1
                         /\ entry.id.k = entry.at - PersonalAhead(p) + 1

(***************************************************************************)
(* C16 as claimed: a call reads the cache exactly once and writes it at    *)
(* most once, only when the read gave nothing and the refresh gave a       *)
(* non-empty list; otherwise the cache is unchanged, and a non-empty cache *)
(* means no refresh.  Refuted: with an explicit token the cache is not     *)
(* read at all.                                                            *)
(***************************************************************************)
CacheHeld(item) == item.kind = "array" /\ item.tokens # <<>>

RefreshGave(p) ==
    /\ io[p].refreshed # None
    /\ io[p].refreshed[1].kind = "array"
    /\ io[p].refreshed[1].tokens # <<>>

CacheWrittenOnlyAfterUsefulRefresh(p) ==
    LET o == io[p]
    IN  /\ o.cacheWrites \in {0, 1}
        /\ (o.cacheWrites = 1) = (~Explicit(p) /\ ~CacheHeld(o.cache0) /\ RefreshGave(p))
        /\ o.cacheWrites = 1 =>
             sessionStorage = [kind |-> "array", tokens |-> o.refreshed[1].tokens]
        /\ o.cacheWrites = 0 => sessionStorage = o.cache0
        /\ (Explicit(p) \/ CacheHeld(o.cache0)) => (o.refreshes = 0 /\ o.refreshed = None)

C16_CacheReadExactlyOnce ==
    \A p \in Calls :
        Begun(p) => (io[p].cacheReads = 1 /\ CacheWrittenOnlyAfterUsefulRefresh(p))

(***************************************************************************)
(* C16 as amended: a call without explicit token reads the cache exactly   *)
(* once, a call with one does not read it; the rest as claimed.            *)
(***************************************************************************)
C16_CacheReadOnceUnlessExplicit ==
    \A p \in Calls :
        Begun(p) =>
            /\ io[p].cacheReads = IF Explicit(p) THEN 0 ELSE 1
            /\ CacheWrittenOnlyAfterUsefulRefresh(p)

\* a call found the cache empty, refreshed, wrote the cache and settled
C16_Witness ==
    \E p \in Calls :
        /\ call[p].pc \in {"resolved", "rejected"}
        /\ io[p].cacheReads = 1
        /\ io[p].cacheWrites = 1
        /\ io[p].cache0.kind = "array"

(***************************************************************************)
(* C14: when two interleaved calls both read an empty cache, each starts   *)
(* its own refresh and each writes its non-empty result; every write       *)
(* replaces the cache, so the cache ends as the value written last; each   *)
(* call builds its candidates from its own result, not the other call's.   *)
(***************************************************************************)
OwnRefreshUsed(p) ==
    LET c == call[p]
        o == io[p]
    IN  (Begun(p) /\ ~CacheHeld(o.cache0)) =>
            /\ o.refreshes = 1
            /\ RefreshGave(p) =>
                 /\ o.cacheWrites = 1
                 /\ c.sharedTokens = o.refreshed[1].tokens
                 /\ c.tokensToTry = c.personalToken \o o.refreshed[1].tokens

EveryWriteReplacesTheCache ==
    /\ \A p \in Calls :
         io'[p].cacheWrites # io[p].cacheWrites =>
             /\ RefreshGave(p)'
             /\ sessionStorage' = [kind |-> "array", tokens |-> io'[p].refreshed[1].tokens]
    /\ (\A p \in Calls : io'[p].cacheWrites = io[p].cacheWrites) =>
         sessionStorage' = sessionStorage

C14_RacingRefreshesLastWriterWins ==
    /\ [](\A p \in Calls : OwnRefreshUsed(p))
    /\ [][EveryWriteReplacesTheCache]_vars

\* both calls read an empty cache and wrote different lists; the cache holds
\* the list of c2 while c1 goes on with its own
C14_Witness ==
    /\ ~CacheHeld(io["c1"].cache0) /\ ~CacheHeld(io["c2"].cache0)
    /\ io["c1"].cacheWrites = 1 /\ io["c2"].cacheWrites = 1
    /\ io["c1"].refreshed # io["c2"].refreshed
    /\ sessionStorage = [kind |-> "array", tokens |-> io["c2"].refreshed[1].tokens]
    /\ call["c1"].sharedTokens = io["c1"].refreshed[1].tokens
    /\ call["c1"].pc = "fetching"

(***************************************************************************)
(* C20: a call without explicit token that starts after another call's     *)
(* refresh gave a non-empty list (written to the cache and not cleared)    *)
(* starts no refresh and tries the shared tokens in the order that refresh *)
(* gave; a call that starts when every refresh so far failed or gave       *)
(* nothing starts the refresh again.                                       *)
(***************************************************************************)
Starts(p) == call[p].pc = "idle" /\ call'[p].pc # "idle"

LaterCallUsesCache ==
    \A p \in Calls, q \in Calls :
        (Starts(p) /\ q # p /\ io[q].refreshed # None /\ ~Explicit(p)') =>
            IF RefreshGave(q)
            THEN /\ io'[p].refreshes = 0
                 /\ call'[p].pc # "refreshing"
                 /\ call'[p].sharedTokens = io[q].refreshed[1].tokens
                 /\ call'[p].tokensToTry = call'[p].personalToken \o io[q].refreshed[1].tokens
            ELSE /\ io'[p].refreshes = 1
                 /\ call'[p].pc = "refreshing"

CachedOrderKept(p) ==
    LET o == io[p]
        personal == IF StoredPersonal(o.user0) THEN 1 ELSE 0
    IN  (Begun(p) /\ ~Explicit(p) /\ CacheHeld(o.cache0)) =>
            /\ o.refreshes = 0
            /\ \E q \in Calls \ {p} :
                 /\ RefreshGave(q)
                 /\ o.cache0.tokens = io[q].refreshed[1].tokens
                 /\ \A j \in (personal + 1)..Len(o.fetches) :
                        o.fetches[j] = io[q].refreshed[1].tokens[j - personal].token

C20_LaterCallReusesRefresh ==
    /\ [][LaterCallUsesCache]_vars
    /\ [](\A p \in Calls : CachedOrderKept(p))

\* c2 started from the list c1's refresh gave, S2 before S1, and has
\* requested both in that order
C20_Witness ==
    /\ RefreshGave("c1")
    /\ io["c1"].refreshed[1].tokens = <<SharedToken(2), SharedToken(1)>>
    /\ io["c2"].cache0 = [kind |-> "array", tokens |-> <<SharedToken(2), SharedToken(1)>>]
    /\ io["c2"].refreshes = 0
    /\ io["c2"].fetches = <<"S2", "S1">>

(***************************************************************************)
(* C17: a response whose body is not JSON makes the attempt fail with the  *)
(* parse error whatever its status: with a 2xx status the call does not    *)
(* return it and goes on to the next candidate, with another status the    *)
(* error is the parse error and not the message made from the status.      *)
(***************************************************************************)
\* the error recorded for the attempt that response j ended
FailureOf(p, j) == {io[p].log[k].error : k \in EntryAt(p, j - 1, "failed")}

C17_MalformedBodyFailsTheAttempt ==
    \A p \in Calls :
        LET c == call[p]
            o == io[p]
        IN  \A j \in 1..Len(o.responses) :
                (o.responses[j].kind = "response" /\ ~o.responses[j].body.json) =>
                    /\ FailureOf(p, j) = {Some("Unexpected token in JSON")}
                    /\ c.pc # "resolved" \/ j < Len(o.responses)
                    /\ c.data # Some(o.responses[j].body)
                    /\ j < Len(c.tokensToTry) =>
                         /\ Len(o.fetches) >= j + 1
                         /\ o.fetches[j + 1] = c.tokensToTry[j + 1].token
                    /\ j = Len(c.tokensToTry) =>
                         /\ c.pc = "rejected"
                         /\ c.thrown = Some(Error("Unexpected token in JSON", j - 1))

\* a 200 without JSON from the personal token, the shared token tried next;
\* a 500 without JSON from the last candidate, the call rejected
C17_Witness ==
    \E p \in Calls :
        /\ Len(io[p].responses) = 2
        /\ io[p].responses[1].status = 200 /\ ~io[p].responses[1].body.json
        /\ io[p].responses[2].status = 500 /\ ~io[p].responses[2].body.json
        /\ call[p].pc = "rejected"

(***************************************************************************)
(* C18: for a response that is not 2xx and has a parsed body, the error    *)
(* message is the body's error.message if it has one, else its message if  *)
(* it has one, else "API call failed (<status>)"; a 2xx response is never  *)
(* made an error by a message in its body.  A field holding the empty      *)
(* string is read here as the code reads it (|| at line 137), as no        *)
(* message.  Refuted by the body null, which is a parsed body with neither *)
(* field: reading data.error of null throws, and the message of that       *)
(* TypeError becomes the attempt's error.                                  *)
(***************************************************************************)
Fallback(status) == "API call failed (" \o ToString(status) \o ")"

MessageInPriorityOrder(out) ==
    IF out.body.error # None /\ out.body.error[1] # "" THEN out.body.error[1]
    ELSE IF out.body.message # None /\ out.body.message[1] # "" THEN out.body.message[1]
    ELSE Fallback(out.status)

Rejection(out) ==
    out.kind = "response" /\ out.status \notin 200..299 /\ out.body.json

OkNeverAnError(p) ==
    \A j \in 1..Len(io[p].responses) :
        LET out == io[p].responses[j]
        IN  (out.kind = "response" /\ out.status \in 200..299 /\ out.body.json) =>
                /\ FailureOf(p, j) = {}
                /\ call[p].pc = "resolved"
                /\ call[p].data = Some(out.body)

C18_MessageInPriorityOrder ==
    \A p \in Calls :
        /\ \A j \in 1..Len(io[p].responses) :
             Rejection(io[p].responses[j]) =>
                 FailureOf(p, j) = {Some(MessageInPriorityOrder(io[p].responses[j]))}
        /\ OkNeverAnError(p)

\* the divergence: a 500 whose body is null has failed with the TypeError
C18_NullBodyFailsWithTypeError ==
    \E p \in Calls :
        /\ Len(io[p].responses) = 1
        /\ io[p].responses[1] = [kind |-> "response", status |-> 500, body |-> NullBody]
        /\ FailureOf(p, 1) = {Some("Cannot read properties of null (reading 'error')")}

(***************************************************************************)
(* C19: if the refresh and every request complete, a call that was made    *)
(* resolves or rejects; it goes only forward, from building the candidate  *)
(* list to attempt 0, attempt 1, ..., and ends with a success or with the  *)
(* candidates exhausted; it makes at most as many requests as there are    *)
(* candidates and requests no candidate twice.                             *)
(***************************************************************************)
Suspended(p) == call[p].pc \in {"refreshing", "fetching"}
Settled(p) == call[p].pc \in {"resolved", "rejected"}

\* one step of call p between its invocation and its end
Forward(p) ==
    LET c == call[p]
        d == call'[p]
    IN  (Suspended(p) /\ d # c) =>
            /\ d.pc # "refreshing"
            /\ c.pc = "refreshing" =>
                 \/ d.pc = "fetching" /\ d.i = 0
                 \/ d.pc = "rejected" /\ d.tokensToTry = <<>>
            /\ c.pc = "fetching" =>
                 /\ d.tokensToTry = c.tokensToTry
                 /\ \/ d.pc = "fetching" /\ d.i = c.i + 1
                    \/ d.pc = "resolved"
                    \/ d.pc = "rejected" /\ c.i + 1 = Len(c.tokensToTry)
            /\ Len(io'[p].fetches) <= Len(io[p].fetches) + 1

\* candidate i is requested while attempt i runs, and only then
OneRequestPerCandidate(p) ==
    LET c == call[p]
        o == io[p]
    IN  /\ c.pc = "refreshing" => o.fetches = <<>>
        /\ c.pc = "fetching" => Len(o.fetches) = c.i + 1 /\ c.i < Len(c.tokensToTry)
        /\ c.pc = "rejected" => Len(o.fetches) = Len(c.tokensToTry)
        /\ Settled(p) => Len(o.fetches) <= Len(c.tokensToTry)
        /\ Len(o.responses) <= Len(o.fetches)

C19_CallEndsMovingForward ==
    /\ \A p \in Calls : Suspended(p) ~> Settled(p)
    /\ [][\A p \in Calls : Forward(p)]_vars
    /\ [](\A p \in Calls : OneRequestPerCandidate(p))

\* a call that refreshed an empty cache and went through the personal token
\* and MaxShared shared tokens has ended with the candidates exhausted
C19_Witness ==
    \E p \in Calls :
        /\ call[p].pc = "rejected"
        /\ io[p].refreshes = 1
        /\ Len(call[p].tokensToTry) = MaxShared + 1
        /\ Len(io[p].fetches) = MaxShared + 1

====
